---- MODULE Spec2Model ----
(***************************************************************************)
(* The catch-all proxy route of my-next-app:                               *)
(*   src/my-next-app/src/app/api/proxy/[...slug]/route.ts                  *)
(* One handler invocation is a small promise chain: the executor builds    *)
(* the target URL and the outbound headers and calls fetch; the fetch      *)
(* settles; the then-callback builds the client-facing NextResponse or     *)
(* throws; the catch-callback synthesizes the 502.                         *)
(*                                                                         *)
(* Data: text is a TLA+ string (concatenated with \o); a header name is a  *)
(* sequence of one-character strings so that case folding is computed; an  *)
(* optional value is a sequence of length 0 (absent) or 1 (present).       *)
(***************************************************************************)
EXTENDS Naturals, Sequences, FiniteSets, TLC

VARIABLES
    env,                \* process.env.TARGET_SERVER_URL (absent, or a string)
    TARGET_SERVER_URL,  \* the module-level constant resolved at load time
    pc,                 \* where each invocation's promise chain stands
    req,                \* the inbound request of each invocation
    outbound,           \* what the invocation handed to fetch
    fetchCalls,         \* how many times the invocation called fetch
    fetchResult,        \* how the fetch settled: a Response or an error
    chainError,         \* the reason the .then() promise was rejected with
    promise,            \* the state of the promise the handler returned
    response,           \* the NextResponse the promise was resolved with
    outcome,            \* which callback produced the response
    inbound             \* the inbound connection: open or closed

vars == <<env, TARGET_SERVER_URL, pc, req, outbound, fetchCalls, fetchResult,
          chainError, promise, response, outcome, inbound>>

\* ------------------------------------------------------------------ bounds
NumInv == 2
MaxSlugLen == 2
MaxQueryLen == 1
MaxReqHeaders == 2
MaxResHeaders == 2

\* --------------------------------------------------------------- constants
BadGateway == 502

None == <<>>
Some(x) == <<x>>
IsSome(o) == Len(o) = 1
Val(o) == o[1]

\* Op applied to the value of v, v evaluated once
With(v, Op(_)) == CHOOSE r \in {Op(x) : x \in {v}} : TRUE

SeqsUpTo(S, n) == UNION {[1..k -> S] : k \in 0..n}

\* ----------------------------------------------------- characters and names
UpperLetters == <<"A","B","C","D","E","F","G","H","I","J","K","L","M",
                  "N","O","P","Q","R","S","T","U","V","W","X","Y","Z">>
LowerLetters == <<"a","b","c","d","e","f","g","h","i","j","k","l","m",
                  "n","o","p","q","r","s","t","u","v","w","x","y","z">>
\* the characters of header names, in code-unit order
CodeUnits == <<"-">> \o UpperLetters \o LowerLetters

NameChars == {CodeUnits[k] : k \in 1..Len(CodeUnits)}

\* the code-unit rank of each character
CodeRank == [c \in NameChars |-> CHOOSE k \in 1..Len(CodeUnits) : CodeUnits[k] = c]

CodeOf(c) == CodeRank[c]

\* each character's lower-case form: A..Z map to a..z, the rest to themselves
LowerForm ==
    [c \in NameChars |->
        IF \E k \in 1..Len(UpperLetters) : UpperLetters[k] = c
        THEN LowerLetters[CHOOSE k \in 1..Len(UpperLetters) : UpperLetters[k] = c]
        ELSE c]

LowerChar(c) == LowerForm[c]

\* String.prototype.toLowerCase on a header name
toLowerCase(name) == [k \in 1..Len(name) |-> LowerChar(name[k])]

\* code-unit order of two names (the order Headers iterates in)
NameLess(a, b) ==
    \E k \in 1..(Len(b)) :
        /\ k <= Len(a) + 1
        /\ \A j \in 1..(k - 1) : a[j] = b[j]
        /\ (k = Len(a) + 1 \/ CodeOf(a[k]) < CodeOf(b[k]))

HOST == <<"h","o","s","t">>
CONTENT_ENCODING == <<"c","o","n","t","e","n","t","-","e","n","c","o","d","i","n","g">>
TRANSFER_ENCODING == <<"t","r","a","n","s","f","e","r","-","e","n","c","o","d","i","n","g">>
SET_COOKIE == <<"s","e","t","-","c","o","o","k","i","e">>
CONTENT_TYPE == <<"c","o","n","t","e","n","t","-","t","y","p","e">>

\* ------------------------------------------------------------------ Headers
\* A header list is a sequence of [name, value]; names keep the case they were
\* given in and are matched case-insensitively.
Hdr(n, v) == [name |-> n, value |-> v]

HeadersHas(list, name) ==
    \E k \in 1..Len(list) : toLowerCase(list[k].name) = toLowerCase(name)

FirstIndex(list, name) ==
    CHOOSE k \in 1..Len(list) :
        /\ toLowerCase(list[k].name) = toLowerCase(name)
        /\ \A j \in 1..(k - 1) : toLowerCase(list[j].name) /= toLowerCase(name)

\* Headers.prototype.append: a name already in the list keeps the first
\* header's spelling
HeadersAppend(list, name, value) ==
    With(list, LAMBDA l :
        IF HeadersHas(l, name)
        THEN Append(l, Hdr(l[FirstIndex(l, name)].name, value))
        ELSE Append(l, Hdr(name, value)))

RECURSIVE DropName(_, _)
DropName(list, name) ==
    IF Len(list) = 0 THEN <<>>
    ELSE IF toLowerCase(Head(list).name) = toLowerCase(name)
         THEN DropName(Tail(list), name)
         ELSE <<Head(list)>> \o DropName(Tail(list), name)

\* Headers.prototype.delete
HeadersDelete(list, name) == DropName(list, name)

\* Headers.prototype.set: the first header of that name takes the value, the
\* others go; a new name is appended
HeadersSet(list, name, value) ==
    With(list, LAMBDA l :
        IF HeadersHas(l, name)
        THEN LET k == FirstIndex(l, name)
             IN  SubSeq(l, 1, k - 1)
                   \o <<Hdr(l[k].name, value)>>
                   \o DropName(SubSeq(l, k + 1, Len(l)), name)
        ELSE Append(l, Hdr(name, value)))

\* the values of the headers of that name, in list order
RECURSIVE ValuesOf(_, _)
ValuesOf(list, name) ==
    IF Len(list) = 0 THEN <<>>
    ELSE IF toLowerCase(Head(list).name) = toLowerCase(name)
         THEN <<Head(list).value>> \o ValuesOf(Tail(list), name)
         ELSE ValuesOf(Tail(list), name)

RECURSIVE JoinWith(_, _)
JoinWith(strs, sep) ==
    IF Len(strs) = 0 THEN ""
    ELSE IF Len(strs) = 1 THEN strs[1]
    ELSE strs[1] \o sep \o JoinWith(Tail(strs), sep)

\* Headers.prototype.get: the values of the name joined by ", ", or absent
HeadersGet(list, name) ==
    IF HeadersHas(list, name) THEN Some(JoinWith(ValuesOf(list, name), ", "))
    ELSE None

LowerNames(list) == {toLowerCase(list[k].name) : k \in 1..Len(list)}

\* the names of S in code-unit order
SortNames(S) ==
    [k \in 1..Cardinality(S) |->
        CHOOSE n \in S : Cardinality({m \in S : NameLess(m, n)}) = k - 1]

RECURSIVE Flatten(_)
Flatten(ss) == IF Len(ss) = 0 THEN <<>> ELSE Head(ss) \o Flatten(Tail(ss))

\* What iterating a Headers object yields ("sort and combine"): lower-cased
\* names in code-unit order, the values of a name combined into one entry,
\* except set-cookie, whose values are yielded one entry each.
EntriesOf(list, n) ==
    IF n = SET_COOKIE
    THEN With(ValuesOf(list, n), LAMBDA vs : [k \in 1..Len(vs) |-> Hdr(n, vs[k])])
    ELSE <<Hdr(n, Val(HeadersGet(list, n)))>>

HeadersEntries(list) ==
    With(list, LAMBDA l :
        With(SortNames(LowerNames(l)), LAMBDA names :
            Flatten([k \in 1..Len(names) |-> EntriesOf(l, names[k])])))

RECURSIVE FillFrom(_, _)
FillFrom(list, entries) ==
    IF Len(entries) = 0 THEN list
    ELSE With(Head(entries), LAMBDA h :
             FillFrom(HeadersAppend(list, h.name, h.value), Tail(entries)))

\* new Headers(init) for a Headers init: every iterated entry is appended
NewHeaders(init) == With(HeadersEntries(init), LAMBDA entries : FillFrom(<<>>, entries))

\* ---------------------------------------------------------------- the URL
QueryEncodeSet == {" ", "\"", "<", ">"}

PercentEncode(c) ==
    CASE c = " "  -> "%20"
      [] c = "\"" -> "%22"
      [] c = "<"  -> "%3C"
      [] c = ">"  -> "%3E"
      [] OTHER    -> c

\* the URL parser's query state: characters of the query percent-encode set
\* are encoded, the others are kept
RECURSIVE ParseQuery(_)
ParseQuery(raw) ==
    IF Len(raw) = 0 THEN ""
    ELSE (IF Head(raw) \in QueryEncodeSet THEN PercentEncode(Head(raw)) ELSE Head(raw))
           \o ParseQuery(Tail(raw))

\* req.nextUrl.search: "" for a URL with no query or an empty one, else "?"
\* and the parsed query.  rawQuery is what followed "?" in the request target,
\* absent when there was no "?".
search(rawQuery) ==
    IF ~IsSome(rawQuery) THEN ""
    ELSE IF ParseQuery(Val(rawQuery)) = "" THEN ""
    ELSE "?" \o ParseQuery(Val(rawQuery))

\* slug.join('/')
join(slug, sep) == JoinWith(slug, sep)

targetPath(r) == "/" \o join(r.slug, "/") \o search(r.query)

targetUrl(r) == TARGET_SERVER_URL \o targetPath(r)

\* faulty variant: the host header is not deleted
headers_KeepHost(r) == NewHeaders(r.headers)

\* const headers = new Headers(req.headers); headers.delete('host')
headers(r) == HeadersDelete(NewHeaders(r.headers), HOST)

\* faulty variant: the body is forwarded whatever the method
body_Always(r) == r.body

\* body: req.method !== 'GET' && req.method !== 'HEAD' ? req.body : undefined
body(r) == IF r.method /= "GET" /\ r.method /= "HEAD" THEN r.body ELSE None

\* the arguments of the fetch call
FetchCall(r) ==
    [url |-> targetUrl(r), method |-> r.method, headers |-> headers(r),
     body |-> body(r)]

\* ------------------------------------------------------- the fetch result
\* How a fetch settles: fulfilled with a Response (kind "response") or rejected
\* with an error (kind "error", its message).
Fulfilled(st, text, hs, b) ==
    [kind |-> "response", status |-> st, statusText |-> text, headers |-> hs,
     body |-> b, message |-> ""]

Rejected(msg) ==
    [kind |-> "error", status |-> 0, statusText |-> "", headers |-> <<>>,
     body |-> None, message |-> msg]

NullBodyStatus == {101, 103, 204, 205, 304}

\* The Response fetch resolves with, for what the upstream sent: the body is
\* null for a null body status and for a HEAD request.
FetchResponse(method, net) ==
    Fulfilled(net.status, net.statusText, net.headers,
              IF net.status \in NullBodyStatus \/ method = "HEAD" THEN None
              ELSE net.body)

\* ------------------------------------------------- the client-facing response
\* A constructor call either returns a response or throws.
Returned(resp) == [threw |-> FALSE, value |-> Some(resp), message |-> ""]
Threw(msg) == [threw |-> TRUE, value |-> None, message |-> msg]

\* new NextResponse(body, {status, statusText, headers}): the Response
\* constructor throws a RangeError for a status outside 200..599 and a
\* TypeError for a body with a null body status; the headers are copied.
NewNextResponse(b, st, text, hs) ==
    IF st \notin 200..599
    THEN Threw("init[\"status\"] must be in the range of 200 to 599, inclusive.")
    ELSE IF IsSome(b) /\ st \in NullBodyStatus
    THEN Threw("Response constructor: Invalid response status code")
    ELSE Returned([status |-> st, statusText |-> text, headers |-> NewHeaders(hs),
                   body |-> b, json |-> <<>>])

\* JSON.stringify of an object literal: a property whose value is undefined is
\* left out
RECURSIVE JsonStringify(_)
JsonStringify(props) ==
    IF Len(props) = 0 THEN <<>>
    ELSE IF IsSome(Head(props).value)
         THEN <<[key |-> Head(props).key, value |-> Val(Head(props).value)]>>
                \o JsonStringify(Tail(props))
         ELSE JsonStringify(Tail(props))

\* NextResponse.json(data, {status})
NextResponseJson(props, st) ==
    [status |-> st, statusText |-> "",
     headers |-> <<Hdr(CONTENT_TYPE, "application/json")>>,
     body |-> None, json |-> JsonStringify(props)]

\* targetRes.headers.forEach((value, key) => { if (...) responseHeaders.set(key, value) })
RECURSIVE ForEachSet(_, _)
ForEachSet(hs, entries) ==
    IF Len(entries) = 0 THEN hs
    ELSE With(Head(entries), LAMBDA h :
             LET key == h.name
                 value == h.value
             IN  ForEachSet(
                     IF toLowerCase(key) /= CONTENT_ENCODING
                          /\ toLowerCase(key) /= TRANSFER_ENCODING
                     THEN HeadersSet(hs, key, value)
                     ELSE hs,
                     Tail(entries)))

responseHeaders(targetRes) ==
    With(HeadersEntries(targetRes.headers), LAMBDA entries : ForEachSet(<<>>, entries))

\* the NextResponse the then-callback builds from the upstream Response
Relay(targetRes) ==
    NewNextResponse(targetRes.body, targetRes.status, targetRes.statusText,
                    responseHeaders(targetRes))

\* faulty variant: the status onError writes, 500, instead of 502
ProxyError_500(message) ==
    NextResponseJson(<<[key |-> "message", value |-> Some("Proxy error")],
                       [key |-> "error", value |-> Some(message)]>>,
                     500)

\* the NextResponse the catch-callback builds from the error
ProxyError(message) ==
    NextResponseJson(<<[key |-> "message", value |-> Some("Proxy error")],
                       [key |-> "error", value |-> Some(message)]>>,
                     BadGateway)

\* ------------------------------------------------------------------ inputs
Undefined == None

DefaultUrl == "https://jsonplaceholder.typicode.com"

EnvValues == {Undefined, Some(""), Some("https://api.example.com/")}

\* process.env.TARGET_SERVER_URL || 'https://jsonplaceholder.typicode.com'
ResolveTarget(e) == IF IsSome(e) /\ Val(e) /= "" THEN Val(e) ELSE DefaultUrl

Methods == {"GET", "POST", "PUT", "DELETE", "PATCH", "HEAD", "OPTIONS"}

Segments == {"a", "b"}
QueryChars == {"x", "<"}

Queries == {None} \cup {Some(q) : q \in SeqsUpTo(QueryChars, MaxQueryLen)}

VIA == <<"v","i","a">>

ReqHeaderPool ==
    {Hdr(<<"H","o","s","t">>, "proxy.test"), Hdr(VIA, "1"), Hdr(<<"V","i","a">>, "2")}

Bodies == {None, Some(<<1, 2>>)}

Request(m, sl, q, hs, b) ==
    [method |-> m, slug |-> sl, query |-> q, headers |-> hs, body |-> b]

\* every request within the bounds
AllRequests ==
    {Request(m, sl, q, hs, b) :
        m \in Methods, sl \in SeqsUpTo(Segments, MaxSlugLen), q \in Queries,
        hs \in SeqsUpTo(ReqHeaderPool, MaxReqHeaders), b \in Bodies}

\* a GET and a POST, for the runs that explore the upstream's side
FewRequests ==
    {Request("GET", <<"a">>, None, <<Hdr(HOST, "proxy.test")>>, None),
     Request("POST", <<"a", "b">>, Some(<<"x">>), <<>>, Some(<<1, 2>>))}

ETAG == <<"e","t","a","g">>

ResHeaderPool ==
    {Hdr(<<"C","o","n","t","e","n","t","-","E","n","c","o","d","i","n","g">>, "gzip"),
     Hdr(TRANSFER_ENCODING, "chunked"),
     Hdr(SET_COOKIE, "a=1"), Hdr(<<"S","e","t","-","C","o","o","k","i","e">>, "b=2"),
     Hdr(ETAG, "1"), Hdr(ETAG, "2")}

Network(st, text, hs, b) ==
    [status |-> st, statusText |-> text, headers |-> hs, body |-> b]

\* every upstream response within the bounds
AllUpstream ==
    {Network(st, text, hs, b) :
        st \in {200, 204, 502, 999}, text \in {"", "OK"},
        hs \in SeqsUpTo(ResHeaderPool, MaxResHeaders),
        b \in {Some(<<>>), Some(<<3, 4>>)}}

\* two upstream responses, for the runs that explore the request's side
FewUpstream ==
    {Network(200, "OK", <<Hdr(ETAG, "1")>>, Some(<<3, 4>>)),
     Network(999, "", <<>>, Some(<<>>))}

\* one upstream response, for the runs that explore every request
OneUpstream == {Network(200, "OK", <<Hdr(ETAG, "1")>>, Some(<<3, 4>>))}

FetchErrors == {"fetch failed"}

\* ----------------------------------------------------------------- actions
Invocations == 1..NumInv

Init ==
    /\ env \in EnvValues
    /\ TARGET_SERVER_URL = ResolveTarget(env)
    /\ pc = [i \in Invocations |-> "idle"]
    /\ req = [i \in Invocations |-> None]
    /\ outbound = [i \in Invocations |-> None]
    /\ fetchCalls = [i \in Invocations |-> 0]
    /\ fetchResult = [i \in Invocations |-> None]
    /\ chainError = [i \in Invocations |-> None]
    /\ promise = [i \in Invocations |-> "none"]
    /\ response = [i \in Invocations |-> None]
    /\ outcome = [i \in Invocations |-> "none"]
    /\ inbound = [i \in Invocations |-> "open"]

\* handler(req, {params}) up to the return of the new Promise: the executor
\* builds the URL and the headers and calls fetch once.
Handler(i, requests) ==
    /\ pc[i] = "idle"
    /\ \E r \in requests :
          /\ req' = [req EXCEPT ![i] = Some(r)]
          /\ outbound' = [outbound EXCEPT ![i] = Some(FetchCall(r))]
    /\ fetchCalls' = [fetchCalls EXCEPT ![i] = @ + 1]
    /\ promise' = [promise EXCEPT ![i] = "pending"]
    /\ pc' = [pc EXCEPT ![i] = "fetching"]
    /\ UNCHANGED <<env, TARGET_SERVER_URL, fetchResult, chainError, response,
                   outcome, inbound>>

\* the fetch is fulfilled with the upstream's response
FetchFulfil(i, upstream) ==
    /\ pc[i] = "fetching"
    /\ \E net \in upstream :
          fetchResult' = [fetchResult EXCEPT
                             ![i] = Some(FetchResponse(Val(req[i]).method, net))]
    /\ pc' = [pc EXCEPT ![i] = "fulfilled"]
    /\ UNCHANGED <<env, TARGET_SERVER_URL, req, outbound, fetchCalls, chainError,
                   promise, response, outcome, inbound>>

\* the fetch is rejected; .then() has no rejection callback, so its promise is
\* rejected with the same reason
FetchReject(i) ==
    /\ pc[i] = "fetching"
    /\ \E msg \in FetchErrors :
          /\ fetchResult' = [fetchResult EXCEPT ![i] = Some(Rejected(msg))]
          /\ chainError' = [chainError EXCEPT ![i] = Some(msg)]
    /\ pc' = [pc EXCEPT ![i] = "chainRejected"]
    /\ UNCHANGED <<env, TARGET_SERVER_URL, req, outbound, fetchCalls, promise,
                   response, outcome, inbound>>

\* faulty variant: the upstream response is kept in a variable the invocations share,
\* so the callback may read the one invocation 1 stored
ThenCallback_Shared(i) ==
    /\ pc[i] = "fulfilled"
    /\ LET j == IF IsSome(fetchResult[1]) /\ Val(fetchResult[1]).kind = "response"
                THEN 1 ELSE i
       IN  \E built \in {Relay(Val(fetchResult[j]))} :
               IF built.threw
               THEN /\ chainError' = [chainError EXCEPT ![i] = Some(built.message)]
                    /\ pc' = [pc EXCEPT ![i] = "chainRejected"]
                    /\ UNCHANGED <<promise, response, outcome>>
               ELSE /\ response' = [response EXCEPT ![i] = built.value]
                    /\ promise' = [promise EXCEPT ![i] = "resolved"]
                    /\ outcome' = [outcome EXCEPT ![i] = "relayed"]
                    /\ pc' = [pc EXCEPT ![i] = "done"]
                    /\ UNCHANGED chainError
    /\ UNCHANGED <<env, TARGET_SERVER_URL, req, outbound, fetchCalls, fetchResult,
                   inbound>>

\* .then(async (targetRes) => { ...; resolve(new NextResponse(...)) }): a throw
\* of the constructor rejects the promise .catch() is attached to
ThenCallback(i) ==
    /\ pc[i] = "fulfilled"
    /\ \E built \in {Relay(Val(fetchResult[i]))} :
           IF built.threw
           THEN /\ chainError' = [chainError EXCEPT ![i] = Some(built.message)]
                /\ pc' = [pc EXCEPT ![i] = "chainRejected"]
                /\ UNCHANGED <<promise, response, outcome>>
           ELSE /\ response' = [response EXCEPT ![i] = built.value]
                /\ promise' = [promise EXCEPT ![i] = "resolved"]
                /\ outcome' = [outcome EXCEPT ![i] = "relayed"]
                /\ pc' = [pc EXCEPT ![i] = "done"]
                /\ UNCHANGED chainError
    /\ UNCHANGED <<env, TARGET_SERVER_URL, req, outbound, fetchCalls, fetchResult,
                   inbound>>

\* faulty variant: the catch-callback calls reject(error) instead of resolve
CatchCallback_Rejects(i) ==
    /\ pc[i] = "chainRejected"
    /\ promise' = [promise EXCEPT ![i] = "rejected"]
    /\ pc' = [pc EXCEPT ![i] = "done"]
    /\ UNCHANGED <<env, TARGET_SERVER_URL, req, outbound, fetchCalls, fetchResult,
                   chainError, response, outcome, inbound>>

\* faulty variant: the catch-callback calls fetch again after the first failure
CatchCallback_Retries(i) ==
    /\ pc[i] = "chainRejected"
    /\ IF fetchCalls[i] < 2
       THEN /\ fetchCalls' = [fetchCalls EXCEPT ![i] = @ + 1]
            /\ pc' = [pc EXCEPT ![i] = "fetching"]
            /\ UNCHANGED <<response, promise, outcome>>
       ELSE /\ response' = [response EXCEPT ![i] = Some(ProxyError(Val(chainError[i])))]
            /\ promise' = [promise EXCEPT ![i] = "resolved"]
            /\ outcome' = [outcome EXCEPT ![i] = "synthesized"]
            /\ pc' = [pc EXCEPT ![i] = "done"]
            /\ UNCHANGED fetchCalls
    /\ UNCHANGED <<env, TARGET_SERVER_URL, req, outbound, fetchResult, chainError,
                   inbound>>

\* .catch((error) => { resolve(NextResponse.json({...}, { status: 502 })) })
CatchCallback(i) ==
    /\ pc[i] = "chainRejected"
    /\ response' = [response EXCEPT ![i] = Some(ProxyError(Val(chainError[i])))]
    /\ promise' = [promise EXCEPT ![i] = "resolved"]
    /\ outcome' = [outcome EXCEPT ![i] = "synthesized"]
    /\ pc' = [pc EXCEPT ![i] = "done"]
    /\ UNCHANGED <<env, TARGET_SERVER_URL, req, outbound, fetchCalls, fetchResult,
                   chainError, inbound>>

\* the client closes the inbound connection while the fetch is in flight; the
\* fetch call was given no signal, so nothing of the invocation reacts
InboundClose(i) ==
    /\ pc[i] = "fetching"
    /\ inbound[i] = "open"
    /\ inbound' = [inbound EXCEPT ![i] = "closed"]
    /\ UNCHANGED <<env, TARGET_SERVER_URL, pc, req, outbound, fetchCalls,
                   fetchResult, chainError, promise, response, outcome>>

\* ---------------------------------------------------------- specifications
\* one invocation, every request within the bounds, one upstream answer
Next ==
    \/ Handler(1, AllRequests)
    \/ FetchFulfil(1, OneUpstream)
    \/ FetchReject(1)
    \/ ThenCallback(1)
    \/ CatchCallback(1)
    \/ InboundClose(1)

Spec == Init /\ [][Next]_vars

\* one invocation, two requests, every upstream answer within the bounds
NextUpstream ==
    \/ Handler(1, FewRequests)
    \/ FetchFulfil(1, AllUpstream)
    \/ FetchReject(1)
    \/ ThenCallback(1)
    \/ CatchCallback(1)
    \/ InboundClose(1)

SpecUpstream == Init /\ [][NextUpstream]_vars

\* the same, with the event loop running every queued callback
SpecLive ==
    /\ Init
    /\ [][NextUpstream]_vars
    /\ WF_vars(ThenCallback(1))
    /\ WF_vars(CatchCallback(1))

\* concurrent invocations
NextConcurrent ==
    \E i \in Invocations :
        \/ Handler(i, FewRequests)
        \/ FetchFulfil(i, FewUpstream)
        \/ FetchReject(i)
        \/ ThenCallback(i)
        \/ CatchCallback(i)
        \/ InboundClose(i)

SpecConcurrent == Init /\ [][NextConcurrent]_vars

\* -------------------------------------------------------------- properties
\* The request target's query as the client sent it: "?" and the characters
\* that followed, or nothing when the target had no "?".
RawQueryString(rawQuery) ==
    IF IsSome(rawQuery) THEN "?" \o JoinWith(Val(rawQuery), "") ELSE ""

\* C1: the outbound request has the inbound method and goes to exactly
\* upstreamBase + "/" + join(P, "/") + Q, where Q is the raw query string of
\* the inbound request, appended byte for byte.
C1_UrlVerbatim ==
    IsSome(outbound[1]) =>
        /\ Val(outbound[1]).method = Val(req[1]).method
        /\ Val(outbound[1]).url =
               TARGET_SERVER_URL \o "/" \o JoinWith(Val(req[1]).slug, "/")
                   \o RawQueryString(Val(req[1]).query)

\* C2: the headers sent upstream never hold host (in any letter case); every
\* other inbound header is there with the value(s) it had (what Headers.get
\* returns for the name); no name is there that was not inbound.
C2_HostDroppedOthersKept ==
    IsSome(outbound[1]) =>
        LET in == Val(req[1]).headers
            out == Val(outbound[1]).headers
        IN  /\ \A k \in 1..Len(out) : toLowerCase(out[k].name) /= HOST
            /\ \A n \in LowerNames(in) \ {HOST} : HeadersGet(out, n) = HeadersGet(in, n)
            /\ LowerNames(out) \subseteq LowerNames(in)

\* C2 witness: a request with a Host header and another header was forwarded,
\* and the other header went upstream alone
C2_Witness ==
    /\ IsSome(outbound[1])
    /\ HeadersHas(Val(req[1]).headers, HOST)
    /\ Len(ValuesOf(Val(req[1]).headers, VIA)) = 1
    /\ Len(Val(outbound[1]).headers) = 1
    /\ HeadersGet(Val(outbound[1]).headers, VIA) = HeadersGet(Val(req[1]).headers, VIA)

\* C3: a GET or HEAD request goes upstream without a body even when it came
\* with one; any other method goes upstream with exactly the inbound body.
C3_BodyByMethod ==
    IsSome(outbound[1]) =>
        IF Val(req[1]).method \in {"GET", "HEAD"}
        THEN Val(outbound[1]).body = None
        ELSE Val(outbound[1]).body = Val(req[1]).body

\* C3 witness: a GET that came with a body was forwarded
C3_Witness ==
    /\ IsSome(outbound[1])
    /\ Val(req[1]).method = "GET"
    /\ Val(req[1]).body = Some(<<1, 2>>)

\* C4: the response relayed from an upstream response holds no
\* content-encoding and no transfer-encoding header, and every other upstream
\* header with all of its values, also those of a header sent more than once.
C4_ResponseHeadersKept ==
    outcome[1] = "relayed" =>
        LET up == Val(fetchResult[1]).headers
            out == Val(response[1]).headers
        IN  /\ ~HeadersHas(out, CONTENT_ENCODING)
            /\ ~HeadersHas(out, TRANSFER_ENCODING)
            /\ \A n \in LowerNames(up) \ {CONTENT_ENCODING, TRANSFER_ENCODING} :
                   HeadersGet(out, n) = HeadersGet(up, n)

\* C5: whenever the fetch is fulfilled, the client-facing response has the
\* upstream's status code, status text and body.
C5_StatusVerbatim ==
    (pc[1] = "done" /\ Val(fetchResult[1]).kind = "response") =>
        /\ Val(response[1]).status = Val(fetchResult[1]).status
        /\ Val(response[1]).statusText = Val(fetchResult[1]).statusText
        /\ Val(response[1]).body = Val(fetchResult[1]).body

\* C6: when the fetch is rejected the client-facing response has status 502
\* and a JSON body with exactly the keys message ("Proxy error") and error
\* (the error's message), and nothing else; a response the handler made up
\* itself never has another status than 502 and holds nothing of the upstream.
C6_FailureIs502 ==
    /\ (pc[1] = "done" /\ Val(fetchResult[1]).kind = "error") =>
           /\ Val(response[1]).status = 502
           /\ Val(response[1]).json =
                  <<[key |-> "message", value |-> "Proxy error"],
                    [key |-> "error", value |-> Val(fetchResult[1]).message]>>
    /\ outcome[1] = "synthesized" =>
           /\ Val(response[1]).status = 502
           /\ Val(response[1]).statusText = ""
           /\ Val(response[1]).body = None
           /\ Val(response[1]).headers = <<Hdr(CONTENT_TYPE, "application/json")>>
           /\ Len(Val(response[1]).json) = 2

\* C6 witness: a rejected fetch was answered
C6_Witness ==
    /\ pc[1] = "done"
    /\ Val(fetchResult[1]).kind = "error"
    /\ Val(response[1]).status = 502

\* C7: the promise the handler returned is never rejected, is resolved once
\* the fetch has settled, whichever way and whatever the then-callback does,
\* and is resolved with one response that never changes afterwards.
C7_AlwaysResponds ==
    /\ [](promise[1] /= "rejected")
    /\ (pc[1] \in {"fulfilled", "chainRejected"})
           ~> (promise[1] = "resolved" /\ IsSome(response[1]))
    /\ [][IsSome(response[1]) => response'[1] = response[1]]_vars

\* C7 witness: the fetch was fulfilled, building the response threw, and the
\* promise was resolved all the same
C7_Witness ==
    /\ promise[1] = "resolved"
    /\ Val(fetchResult[1]).kind = "response"
    /\ outcome[1] = "synthesized"

\* C8: when the inbound connection closes while the fetch is in flight, the
\* fetch is aborted: it does not end fulfilled with the upstream's response.
C8_AbortOnClose ==
    (inbound[1] = "closed" /\ IsSome(fetchResult[1])) =>
        Val(fetchResult[1]).kind = "error"

\* C9: an invocation calls fetch exactly once, also after the fetch failed,
\* and ends in one of two ways: the upstream's response relayed, or the 502
\* made up; before that it has produced nothing.
C9_OneFetchTwoOutcomes ==
    /\ fetchCalls[1] <= 1
    /\ pc[1] \in {"fetching", "fulfilled", "chainRejected", "done"} => fetchCalls[1] = 1
    /\ pc[1] = "done" =>
           \/ /\ outcome[1] = "relayed"
              /\ response[1] = Relay(Val(fetchResult[1])).value
           \/ /\ outcome[1] = "synthesized"
              /\ Val(response[1]).status = 502
    /\ pc[1] /= "done" => (outcome[1] = "none" /\ response[1] = None)

\* C9 witness: the fetch failed and the invocation ended with the 502, one fetch made
C9_Witness ==
    /\ pc[1] = "done"
    /\ Val(fetchResult[1]).kind = "error"
    /\ outcome[1] = "synthesized"
    /\ fetchCalls[1] = 1

\* what one invocation answers for a settled fetch, from that result alone
Translation(result) ==
    IF result.kind = "error" THEN ProxyError(result.message)
    ELSE IF Relay(result).threw THEN ProxyError(Relay(result).message)
    ELSE Val(Relay(result).value)

\* C10: under any interleaving, an invocation's fetch call is a function of its
\* own request and the upstream base, and its response a function of its own
\* fetch result; two invocations with the same request and the same result
\* made the same call and the same response; the upstream base is the
\* environment's value, or the default when that is absent, and never changes.
C10_Independent ==
    /\ [](\A i \in Invocations :
            /\ IsSome(outbound[i]) => outbound[i] = Some(FetchCall(Val(req[i])))
            /\ pc[i] = "done" => response[i] = Some(Translation(Val(fetchResult[i]))))
    /\ [](\A i, j \in Invocations :
            (/\ pc[i] = "done" /\ pc[j] = "done"
             /\ req[i] = req[j] /\ fetchResult[i] = fetchResult[j])
                => (outbound[i] = outbound[j] /\ response[i] = response[j]))
    /\ [](/\ env = Undefined => TARGET_SERVER_URL = DefaultUrl
          /\ (IsSome(env) /\ Val(env) /= "") => TARGET_SERVER_URL = Val(env))
    /\ [][TARGET_SERVER_URL' = TARGET_SERVER_URL /\ env' = env]_vars

\* C10 witness: two invocations ran to the end with different requests and
\* different outcomes, and two ran to the end with the same request and result
C10_Witness ==
    /\ pc[1] = "done" /\ pc[2] = "done"
    /\ req[1] /= req[2]
    /\ outcome[1] = "relayed" /\ outcome[2] = "synthesized"

====
